---- MODULE Spec2Model ----
(***************************************************************************)
(* Model of src/main.cpp: the peridynamic porosity simulator.              *)
(*                                                                         *)
(* main() calls runSimulation() in a loop.  One run reads five doubles,    *)
(* validates them, builds a regular lattice, counts the bonds of every     *)
(* particle (first pass), breaks each bond with probability phi (second    *)
(* pass), derives the damage field and writes a VTK file.                  *)
(*                                                                         *)
(* Numbers.  A double is modelled by an integer numerator over a fixed     *)
(* denominator:                                                            *)
(*   Lx, Ly, dx, phi, m, d_phi, r, particles[k].x/.y   in units of 1/Unit  *)
(*   dist2(a, b)                                       in units of 1/Unit^2*)
(*   delta2                                            in units of 1/Unit^4*)
(* With Unit a power of two and the small magnitudes enumerated here every *)
(* product, sum and difference the code forms is exactly representable in  *)
(* IEEE double, and the quotient Lx/dx is either an integer or at least    *)
(* 1/dx away from one, so the integer arithmetic below is the arithmetic   *)
(* the compiled program performs on these inputs.  A quotient that need    *)
(* not be representable (damage, realizedPorosity) is kept as the pair     *)
(* <<numerator, denominator>>.                                             *)
(*                                                                         *)
(* std::cout is not modelled; std::cerr, the files on disk and the         *)
(* contents streamed into the VTK file are.                                *)
(***************************************************************************)
EXTENDS Integers, Sequences, FiniteSets, TLC

\* ---------------------------------------------------------------- bounds
MaxL == 2        \* largest Lx, Ly enumerated (in 1/Unit)
MaxDx == 2       \* largest dx enumerated (in 1/Unit)
MaxM == 4        \* largest m enumerated (in 1/Unit)
MaxN == 4        \* largest lattice enumerated (particles)
MaxRuns == 2     \* iterations of main's loop

\* denominator of the fixed-point representation of a double
Unit == 2

\* std::setprecision(6) with std::fixed: six decimals
Precision == 1000000

LSet == (0 - Unit)..MaxL
DxSet == -1..MaxDx
MSet == -1..MaxM
PhiSet == -1..(Unit + 1)
\* uniform_real_distribution<>(0.0, 1.0) yields r in [0,1)
RSet == 0..(Unit - 1)

VARIABLES
    pc,                \* position in main / runSimulation
    runs,              \* number of runSimulation calls started by main
    Lx, Ly, dx, phi, m,
    d_phi,
    Nx, Ny, N,
    particles,         \* [0..N-1 -> [x, y]]
    delta2,
    N_total, N_broken, \* [0..N-1 -> Int]
    i, j,              \* loop indices of the pair loops
    gen,               \* number of values drawn from uniform01(gen)
    r,                 \* last value drawn
    totalBonds, brokenBonds,
    realizedPorosity,  \* <<num, den>>
    damage,            \* [0..N-1 -> <<num, den>>]
    filename,
    vtk,               \* lines streamed into the ofstream of this run
    files,             \* names of the files existing on disk
    cerr               \* messages written to std::cerr

inputs == <<Lx, Ly, dx, phi, m>>
lattice == <<Nx, Ny, N, particles>>
counts == <<N_total, N_broken>>
loop == <<i, j>>
stats == <<totalBonds, brokenBonds, realizedPorosity>>
output == <<filename, vtk, files, cerr>>
vars == <<pc, runs, inputs, d_phi, lattice, delta2, counts, loop, gen, r,
          stats, damage, output>>

\* ------------------------------------------------------------ helpers
\* squared distance between two particles, in 1/Unit^2
dist2(a, b) == (a.x - b.x) * (a.x - b.x) + (a.y - b.y) * (a.y - b.y)

\* variant of the parameter check that forgets the horizon factor
Invalid_noM(lx, ly, d, p, mm) ==
    d <= 0 \/ lx <= 0 \/ ly <= 0 \/ p < 0 \/ p > Unit

\* the parameter check of runSimulation
Invalid(lx, ly, d, p, mm) ==
    d <= 0 \/ lx <= 0 \/ ly <= 0 \/ p < 0 \/ p > Unit \/ mm <= 0

\* static_cast<int>(std::floor(L / d)) + 1, for L > 0 and d > 0
GridCount(L, d) == (L \div d) + 1

\* id of lattice point (column c, row rw)
GridId(c, rw, nx) == rw * nx + c

\* variant of the position with the two axes exchanged
GridPos_swapped(c, rw, d) == [x |-> rw * d, y |-> c * d]

\* position given to lattice point (column c, row rw)
GridPos(c, rw, d) == [x |-> c * d, y |-> rw * d]

\* the nested fill loop, iteration k of Nx*Ny in loop order (row outer)
RECURSIVE FillGrid(_, _, _, _, _)
FillGrid(ps, k, nx, ny, d) ==
    IF k >= nx * ny THEN ps
    ELSE LET c == k % nx
             rw == k \div nx
             id == GridId(c, rw, nx)
         IN FillGrid(IF id \in DOMAIN ps
                       THEN [ps EXCEPT ![id] = GridPos(c, rw, d)]
                       ELSE ps,
                     k + 1, nx, ny, d)

\* delta = m * dx; delta2 = delta * delta, in 1/Unit^4
Delta2(mm, d) == (mm * d) * (mm * d)

\* variant of the bond test with an open horizon
IsBond_strict(a, b, d2) == dist2(a, b) * Unit * Unit < d2

\* dist2(particles[i], particles[j]) <= delta2
IsBond(a, b, d2) == dist2(a, b) * Unit * Unit <= d2

\* variant that counts a bond at its first endpoint only
CountBond_one(nt, a, b) == [nt EXCEPT ![a] = @ + 1]

\* N_total[i]++; N_total[j]++;
CountBond(nt, a, b) == [nt EXCEPT ![a] = @ + 1, ![b] = @ + 1]

\* variant of the break test that includes r = d_phi
Breaks_le(rr, d) == rr <= d

\* r < d_phi
Breaks(rr, d) == rr < d

\* variant that records a broken bond at its first endpoint only
BreakBond_one(nb, a, b) == [nb EXCEPT ![a] = @ + 1]

\* variant that records a broken bond twice at its second endpoint
BreakBond_jTwice(nb, a, b) == [nb EXCEPT ![b] = @ + 2]

\* N_broken[i]++; N_broken[j]++;
BreakBond(nb, a, b) == [nb EXCEPT ![a] = @ + 1, ![b] = @ + 1]

\* first pair of "for i in 0..N-1, for j in i+1..N-1", <<n, n+1>> if none
FirstPair(n) == IF n >= 2 THEN <<0, 1>> ELSE <<n, n + 1>>

\* the pair visited after <<a, b>>, <<n, n+1>> when the loops are over
NextPair(a, b, n) ==
    IF b + 1 < n THEN <<a, b + 1>>
    ELSE IF a + 2 < n THEN <<a + 1, a + 2>>
    ELSE <<n, n + 1>>

\* quotient of two ints cast to double
Ratio(a, b) == <<a, b>>

\* operator<< of a double num/den under std::fixed, setprecision(6):
\* the value rounded to millionths (no tie occurs for these magnitudes)
Fixed6(num, den) == (2 * num * Precision + den) \div (2 * den)

Line(tag, vals) == [tag |-> tag, vals |-> vals]

\* ------------------------------------------------------------ Init
Init ==
    /\ pc = "input"
    /\ runs = 1
    /\ Lx = 0 /\ Ly = 0 /\ dx = 0 /\ phi = 0 /\ m = 0
    /\ d_phi = 0
    /\ Nx = 0 /\ Ny = 0 /\ N = 0
    /\ particles = <<>>
    /\ delta2 = 0
    /\ N_total = <<>> /\ N_broken = <<>>
    /\ i = 0 /\ j = 0
    /\ gen = 0
    /\ r = 0
    /\ totalBonds = 0 /\ brokenBonds = 0
    /\ realizedPorosity = <<0, 1>>
    /\ damage = <<>>
    /\ filename = <<>>
    /\ vtk = <<>>
    /\ files = {}
    /\ cerr = <<>>

\* ------------------------------------------------------------ actions
\* the five std::cin >> reads
ReadInput ==
    /\ pc = "input"
    /\ \E lx \in LSet, ly \in LSet, d \in DxSet, p \in PhiSet, mm \in MSet :
          /\ IF Invalid(lx, ly, d, p, mm) THEN TRUE
             ELSE GridCount(lx, d) * GridCount(ly, d) <= MaxN
          /\ Lx' = lx /\ Ly' = ly /\ dx' = d /\ phi' = p /\ m' = mm
    /\ pc' = "check"
    /\ UNCHANGED <<runs, d_phi, lattice, delta2, counts, loop, gen, r,
                   stats, damage, output>>

\* if (dx <= 0.0 || ...) { std::cerr << ...; return; }
RejectInput ==
    /\ pc = "check"
    /\ Invalid(Lx, Ly, dx, phi, m)
    /\ cerr' = Append(cerr, "Invalid input parameters.")
    /\ pc' = "ask"
    /\ UNCHANGED <<runs, inputs, d_phi, lattice, delta2, counts, loop, gen,
                   r, stats, damage, filename, vtk, files>>

\* double d_phi = phi;
AcceptInput ==
    /\ pc = "check"
    /\ ~Invalid(Lx, Ly, dx, phi, m)
    /\ d_phi' = phi
    /\ pc' = "grid"
    /\ UNCHANGED <<runs, inputs, lattice, delta2, counts, loop, gen, r,
                   stats, damage, output>>

\* section 2: Nx, Ny, N and the particle vector
BuildGrid ==
    /\ pc = "grid"
    /\ LET nx == GridCount(Lx, dx)
           ny == GridCount(Ly, dx)
       IN /\ Nx' = nx
          /\ Ny' = ny
          /\ N' = nx * ny
          /\ particles' = FillGrid([k \in 0..(nx * ny - 1) |->
                                       [x |-> 0, y |-> 0]],
                                   0, nx, ny, dx)
    /\ pc' = "neighbors"
    /\ UNCHANGED <<runs, inputs, d_phi, delta2, counts, loop, gen, r, stats,
                   damage, output>>

\* section 3 up to the first pass: delta2 and the two zeroed vectors
InitCounts ==
    /\ pc = "neighbors"
    /\ delta2' = Delta2(m, dx)
    /\ N_total' = [k \in 0..(N - 1) |-> 0]
    /\ N_broken' = [k \in 0..(N - 1) |-> 0]
    /\ i' = FirstPair(N)[1]
    /\ j' = FirstPair(N)[2]
    /\ pc' = "pass1"
    /\ UNCHANGED <<runs, inputs, d_phi, lattice, gen, r, stats, damage,
                   output>>

\* one iteration of the inner loop of the first pass
FirstPassStep ==
    /\ pc = "pass1"
    /\ i < N
    /\ N_total' = IF IsBond(particles[i], particles[j], delta2)
                  THEN CountBond(N_total, i, j)
                  ELSE N_total
    /\ i' = NextPair(i, j, N)[1]
    /\ j' = NextPair(i, j, N)[2]
    /\ UNCHANGED <<pc, runs, inputs, d_phi, lattice, delta2, N_broken, gen,
                   r, stats, damage, output>>

\* end of the first pass; the generator and the global counters are set up
FirstPassDone ==
    /\ pc = "pass1"
    /\ i >= N
    /\ gen' = 0
    /\ totalBonds' = 0
    /\ brokenBonds' = 0
    /\ i' = FirstPair(N)[1]
    /\ j' = FirstPair(N)[2]
    /\ pc' = "pass2"
    /\ UNCHANGED <<runs, inputs, d_phi, lattice, delta2, counts, r,
                   realizedPorosity, damage, output>>

\* variant of the pre-damage iteration that draws r for every pair
PreDamageStep_drawAll ==
    /\ pc = "pass2"
    /\ i < N
    /\ \E rr \in RSet : r' = rr
    /\ gen' = gen + 1
    /\ IF IsBond(particles[i], particles[j], delta2)
       THEN /\ totalBonds' = totalBonds + 1
            /\ IF Breaks(r', d_phi)
               THEN /\ N_broken' = BreakBond(N_broken, i, j)
                    /\ brokenBonds' = brokenBonds + 1
               ELSE UNCHANGED <<N_broken, brokenBonds>>
       ELSE UNCHANGED <<totalBonds, N_broken, brokenBonds>>
    /\ i' = NextPair(i, j, N)[1]
    /\ j' = NextPair(i, j, N)[2]
    /\ UNCHANGED <<pc, runs, inputs, d_phi, lattice, delta2, N_total,
                   realizedPorosity, damage, output>>

\* one iteration of the inner loop of the pre-damage pass
PreDamageStep ==
    /\ pc = "pass2"
    /\ i < N
    /\ IF IsBond(particles[i], particles[j], delta2)
       THEN /\ totalBonds' = totalBonds + 1
            /\ \E rr \in RSet : r' = rr
            /\ gen' = gen + 1
            /\ IF Breaks(r', d_phi)
               THEN /\ N_broken' = BreakBond(N_broken, i, j)
                    /\ brokenBonds' = brokenBonds + 1
               ELSE UNCHANGED <<N_broken, brokenBonds>>
       ELSE UNCHANGED <<totalBonds, r, gen, N_broken, brokenBonds>>
    /\ i' = NextPair(i, j, N)[1]
    /\ j' = NextPair(i, j, N)[2]
    /\ UNCHANGED <<pc, runs, inputs, d_phi, lattice, delta2, N_total,
                   realizedPorosity, damage, output>>

\* end of the pre-damage pass: realizedPorosity
PreDamageDone ==
    /\ pc = "pass2"
    /\ i >= N
    /\ realizedPorosity' = IF totalBonds > 0
                           THEN Ratio(brokenBonds, totalBonds)
                           ELSE <<0, 1>>
    /\ pc' = "damage"
    /\ UNCHANGED <<runs, inputs, d_phi, lattice, delta2, counts, loop, gen,
                   r, totalBonds, brokenBonds, damage, output>>

\* variant of damage[i] without the test for an isolated point
DamageOf_noGuard(nb, nt) == Ratio(nb, nt)

\* damage[i] of section 5
DamageOf(nb, nt) == IF nt > 0 THEN Ratio(nb, nt) ELSE <<0, 1>>

\* "porosity_Lx" + to_string((int)Lx) + "_phi" + to_string((int)(phi*100))
\* + ".vtk"; both casts truncate a non-negative value here
FileName(lx, p) ==
    <<"porosity_Lx", lx \div Unit, "_phi", (p * 100) \div Unit, ".vtk">>

\* the lines written between the open and the close of the file
VtkHeader ==
    << Line("# vtk DataFile Version 3.0", <<>>),
       Line("Peridynamic porous pre-damage", <<>>),
       Line("ASCII", <<>>),
       Line("DATASET POLYDATA", <<>>) >>

VtkPoints(ps, n) ==
    <<Line("POINTS float", <<n>>)>> \o
    [k \in 1..n |-> Line("", <<Fixed6(ps[k - 1].x, Unit),
                               Fixed6(ps[k - 1].y, Unit),
                               Fixed6(0, 1)>>)]

\* variant of the VERTICES block with 1-based point indices
VtkVertices_oneBased(n) ==
    <<Line("VERTICES", <<n, 2 * n>>)>> \o
    [k \in 1..n |-> Line("", <<1, k>>)]

VtkVertices(n) ==
    <<Line("VERTICES", <<n, 2 * n>>)>> \o
    [k \in 1..n |-> Line("", <<1, k - 1>>)]

VtkPointData(dmg, n) ==
    << Line("POINT_DATA", <<n>>),
       Line("SCALARS damage float 1", <<>>),
       Line("LOOKUP_TABLE default", <<>>) >> \o
    [k \in 1..n |-> Line("", <<Fixed6(dmg[k - 1][1], dmg[k - 1][2])>>)]

\* section 5: the damage vector (and the file name of section 6)
ComputeDamage ==
    /\ pc = "damage"
    /\ damage' = [k \in 0..(N - 1) |-> DamageOf(N_broken[k], N_total[k])]
    /\ filename' = FileName(Lx, phi)
    /\ pc' = "open"
    /\ UNCHANGED <<runs, inputs, d_phi, lattice, delta2, counts, loop, gen,
                   r, stats, vtk, files, cerr>>

\* std::ofstream vtk(filename) fails: message on std::cerr, return
OpenFails ==
    /\ pc = "open"
    /\ cerr' = Append(cerr, "Error: could not open file for writing.")
    /\ pc' = "ask"
    /\ UNCHANGED <<runs, inputs, d_phi, lattice, delta2, counts, loop, gen,
                   r, stats, damage, filename, vtk, files>>

\* std::ofstream vtk(filename) succeeds: the file exists, truncated
OpenSucceeds ==
    /\ pc = "open"
    /\ files' = files \cup {filename}
    /\ vtk' = <<>>
    /\ pc' = "write"
    /\ UNCHANGED <<runs, inputs, d_phi, lattice, delta2, counts, loop, gen,
                   r, stats, damage, filename, cerr>>

\* header, POINTS, VERTICES and POINT_DATA blocks, then vtk.close()
WriteVTK ==
    /\ pc = "write"
    /\ vtk' = VtkHeader \o VtkPoints(particles, N) \o VtkVertices(N)
                        \o VtkPointData(damage, N)
    /\ pc' = "visualize"
    /\ UNCHANGED <<runs, inputs, d_phi, lattice, delta2, counts, loop, gen,
                   r, stats, damage, filename, files, cerr>>

\* "Would you like to visualize the results?"; openVTKFile only prints
Visualize ==
    /\ pc = "visualize"
    /\ \E visualize \in BOOLEAN : pc' = "ask"
    /\ UNCHANGED <<runs, inputs, d_phi, lattice, delta2, counts, loop, gen,
                   r, stats, damage, output>>

\* the locals of runSimulation do not outlive the call
ResetLocals ==
    /\ Lx' = 0 /\ Ly' = 0 /\ dx' = 0 /\ phi' = 0 /\ m' = 0
    /\ d_phi' = 0
    /\ Nx' = 0 /\ Ny' = 0 /\ N' = 0
    /\ particles' = <<>>
    /\ delta2' = 0
    /\ N_total' = <<>> /\ N_broken' = <<>>
    /\ i' = 0 /\ j' = 0
    /\ gen' = 0
    /\ r' = 0
    /\ totalBonds' = 0 /\ brokenBonds' = 0
    /\ realizedPorosity' = <<0, 1>>
    /\ damage' = <<>>
    /\ filename' = <<>>
    /\ vtk' = <<>>

\* main: response is 'y' or 'Y', runSimulation is called again
RunAgain ==
    /\ pc = "ask"
    /\ runs < MaxRuns
    /\ runs' = runs + 1
    /\ ResetLocals
    /\ pc' = "input"
    /\ UNCHANGED <<files, cerr>>

\* main: any other response ends the loop
Quit ==
    /\ pc = "ask"
    /\ ResetLocals
    /\ pc' = "exit"
    /\ UNCHANGED <<runs, files, cerr>>

Next ==
    \/ ReadInput
    \/ RejectInput
    \/ AcceptInput
    \/ BuildGrid
    \/ InitCounts
    \/ FirstPassStep
    \/ FirstPassDone
    \/ PreDamageStep
    \/ PreDamageDone
    \/ ComputeDamage
    \/ OpenFails
    \/ OpenSucceeds
    \/ WriteVTK
    \/ Visualize
    \/ RunAgain
    \/ Quit

Spec == Init /\ [][Next]_vars

TypeOK ==
    /\ pc \in {"input", "check", "grid", "neighbors", "pass1", "pass2",
               "damage", "open", "write", "visualize", "ask", "exit"}
    /\ runs \in 1..MaxRuns

\* ------------------------------------------------------ properties
\* the parameter condition of the specification, spelled out
BadParams == Lx <= 0 \/ Ly <= 0 \/ dx <= 0 \/ phi < 0 \/ phi > Unit \/ m <= 0

\* the lattice exists (the run is past section 2 and was not rejected)
Built == pc \in {"neighbors", "pass1", "pass2", "damage", "open", "write",
                 "visualize", "ask"} /\ ~BadParams

\* the first pass is over
Counted == pc \in {"pass2", "damage", "open", "write", "visualize", "ask"}
             /\ ~BadParams

\* the pre-damage pass is over
Damaged == pc \in {"damage", "open", "write", "visualize", "ask"}
             /\ ~BadParams

\* particles k and l are within the horizon m * dx (exact arithmetic)
Within(k, l) ==
    Unit * Unit * ((particles[k].x - particles[l].x)
                     * (particles[k].x - particles[l].x)
                   + (particles[k].y - particles[l].y)
                     * (particles[k].y - particles[l].y))
      <= (m * dx) * (m * dx)

\* the unordered pairs of distinct indices, as <<a, b>> with a < b
Pairs == {p \in (0..(N - 1)) \X (0..(N - 1)) : p[1] < p[2]}

\* the pairs the loops visit before <<a, b>>
PairsBefore(a, b) == {p \in Pairs : p[1] < a \/ (p[1] = a /\ p[2] < b)}

\* the bonds among a set of pairs, and those incident to particle k
BondsIn(ps) == {p \in ps : Within(p[1], p[2])}
BondsAt(ps, k) == {p \in BondsIn(ps) : p[1] = k \/ p[2] = k}

RECURSIVE SumOver(_, _)
SumOver(f, S) ==
    IF S = {} THEN 0
    ELSE LET k == CHOOSE e \in S : TRUE IN f[k] + SumOver(f, S \ {k})

Sum(f) == SumOver(f, DOMAIN f)

\* C1: during the first pass N_total[k] counts exactly the bonds incident to
\* k among the pairs i < j visited so far, each once; after the pass it is
\* the number of particles l # k with squared distance <= (m*dx)^2.
C1_BondEnumeration ==
    /\ (pc = "pass1" /\ i < N) => (i < j /\ j < N)
    /\ pc = "pass1" =>
          \A k \in 0..(N - 1) :
             N_total[k] = Cardinality(BondsAt(PairsBefore(i, j), k))
    /\ Counted =>
          \A k \in 0..(N - 1) :
             N_total[k] = Cardinality({l \in 0..(N - 1) :
                                          l # k /\ Within(k, l)})

\* Lx = Ly = dx = 1, m = 1.5: four particles, six bonds, three per particle
C1_Witness ==
    /\ pc = "damage"
    /\ Lx = Unit /\ Ly = Unit /\ dx = Unit /\ 2 * m = 3 * Unit
    /\ N = 4
    /\ totalBonds = 6
    /\ \A k \in 0..3 : N_total[k] = 3

\* C2: a run whose parameters violate the contract ends at the check: the
\* next step returns to main with the message on std::cerr, no file created
\* or written, no lattice, no bond counts and no damage field.
C2_InvalidAborts ==
    [][(pc = "check" /\ BadParams) =>
          /\ pc' = "ask"
          /\ cerr' = Append(cerr, "Invalid input parameters.")
          /\ files' = files
          /\ vtk' = <<>> /\ filename' = <<>>
          /\ particles' = <<>> /\ N' = 0
          /\ N_total' = <<>> /\ N_broken' = <<>>
          /\ totalBonds' = 0 /\ brokenBonds' = 0
          /\ damage' = <<>>
          /\ inputs' = inputs]_vars

\* dx = 0, Lx = -1, phi = 1.5, m = 0 together, in a second run that follows
\* a run which wrote its file
C2_Witness ==
    /\ pc = "ask"
    /\ runs = 2
    /\ dx = 0 /\ Lx = 0 - Unit /\ 2 * phi = 3 * Unit /\ m = 0
    /\ files # {}
    /\ cerr = <<"Invalid input parameters.">>
    /\ particles = <<>>

\* C3: once built, Nx = floor(Lx/dx)+1 and Ny = floor(Ly/dx)+1 are >= 1,
\* there are exactly Nx*Ny particles and particle row*Nx + column is at
\* (column*dx, row*dx).
C3_Lattice ==
    Built =>
       /\ Nx >= 1 /\ Ny >= 1
       /\ (Nx - 1) * dx <= Lx /\ Lx < Nx * dx
       /\ (Ny - 1) * dx <= Ly /\ Ly < Ny * dx
       /\ N = Nx * Ny
       /\ DOMAIN particles = 0..(N - 1)
       /\ \A rw \in 0..(Ny - 1) : \A c \in 0..(Nx - 1) :
             particles[rw * Nx + c] = [x |-> c * dx, y |-> rw * dx]

\* a domain shorter than dx in x gives a single column of several rows
C3_Witness ==
    /\ pc = "neighbors"
    /\ Lx < dx
    /\ Nx = 1 /\ Ny >= 2
    /\ particles[Ny - 1] = [x |-> 0, y |-> (Ny - 1) * dx]

\* C4: after the pre-damage pass, twice the global bond count equals the sum
\* of the per-particle counts of the first pass.
C4_SumCheck ==
    Damaged => 2 * totalBonds = Sum(N_total)

\* a lattice with bonds and with pairs that are not bonds
C4_Witness ==
    /\ pc = "damage"
    /\ totalBonds > 0
    /\ totalBonds < Cardinality(Pairs)
    /\ 2 * totalBonds = Sum(N_total)

\* C5: in every state, 0 <= N_broken[k] <= N_total[k] for every particle.
C5_BrokenWithinTotal ==
    /\ DOMAIN N_broken = DOMAIN N_total
    /\ \A k \in DOMAIN N_broken :
          0 <= N_broken[k] /\ N_broken[k] <= N_total[k]

\* a particle with some but not all of its bonds broken
C5_Witness ==
    /\ pc = "damage"
    /\ \E k \in DOMAIN N_broken :
          0 < N_broken[k] /\ N_broken[k] < N_total[k]

\* C6: the pre-damage pass visits the pairs in strictly increasing order;
\* for a bond it draws exactly one r, breaks the bond iff r < phi and then
\* adds one to N_broken of both endpoints and to brokenBonds; for any other
\* pair it draws nothing and changes no counter.  The number of draws is at
\* every moment the number of bonds among the pairs visited, and once the
\* pass is over the run draws no more and changes no broken counter.
C6_OneDrawPerBond ==
    /\ [](pc = "pass2" =>
            /\ d_phi = phi
            /\ gen = Cardinality(BondsIn(PairsBefore(i, j))))
    /\ [][(pc = "pass2" /\ i < N) =>
            /\ i' > i \/ (i' = i /\ j' > j)
            /\ PairsBefore(i', j') = PairsBefore(i, j) \cup {<<i, j>>}
            /\ IF Within(i, j)
               THEN /\ gen' = gen + 1
                    /\ r' \in RSet
                    /\ IF r' < phi
                       THEN /\ N_broken' = [N_broken EXCEPT ![i] = @ + 1,
                                                            ![j] = @ + 1]
                            /\ brokenBonds' = brokenBonds + 1
                       ELSE UNCHANGED <<N_broken, brokenBonds>>
               ELSE UNCHANGED <<gen, r, N_broken, brokenBonds>>]_vars
    /\ [][(pc \in {"damage", "open", "write", "visualize"}) =>
            UNCHANGED <<gen, r, N_broken, brokenBonds, totalBonds>>]_vars

\* a finished pass over a lattice with bonds and non-bonds, in which a draw
\* equal to phi left its bond intact and another bond was broken
C6_Witness ==
    /\ pc = "damage"
    /\ gen = Cardinality(BondsIn(Pairs))
    /\ gen < Cardinality(Pairs)
    /\ 0 < brokenBonds /\ brokenBonds < gen
    /\ r = phi

\* C7: after the pre-damage pass, phi = 0 leaves no bond broken and phi = 1
\* leaves every bond broken, globally and per particle.
C7_Extremes ==
    Damaged =>
       /\ phi = 0 => (brokenBonds = 0 /\ \A k \in 0..(N - 1) : N_broken[k] = 0)
       /\ phi = Unit => (/\ brokenBonds = totalBonds
                         /\ \A k \in 0..(N - 1) : N_broken[k] = N_total[k])

\* phi = 0 on a lattice with bonds whose last draw was r = 0
C7_Witness ==
    /\ pc = "damage"
    /\ phi = 0
    /\ totalBonds > 0
    /\ gen = totalBonds
    /\ r = 0
    /\ brokenBonds = 0

\* the damage field has been computed
HasDamage == pc \in {"open", "write", "visualize", "ask"} /\ ~BadParams

\* C8: damage[k] is N_broken[k] / N_total[k] when N_total[k] > 0 and 0 when
\* N_total[k] = 0; no quotient has a zero divisor and every value is in
\* [0, 1].
C8_DamageField ==
    HasDamage =>
       /\ DOMAIN damage = 0..(N - 1)
       /\ \A k \in 0..(N - 1) :
             /\ damage[k][2] # 0
             /\ N_total[k] > 0 =>
                   damage[k][1] * N_total[k] = N_broken[k] * damage[k][2]
             /\ N_total[k] = 0 => damage[k][1] = 0
             /\ 0 <= damage[k][1] /\ damage[k][1] <= damage[k][2]

\* several particles, all isolated because the horizon is shorter than dx
C8_Witness ==
    /\ pc = "open"
    /\ N >= 2
    /\ \A k \in 0..(N - 1) : N_total[k] = 0 /\ damage[k] = <<0, 1>>

\* C9: the written file has the four header lines, then POINTS N and N
\* point lines, VERTICES N 2N and N vertex lines, the three POINT_DATA
\* lines and N damage lines; entry k of each block is particle k: its
\* position to six decimals, "1 k", and its damage rounded to six decimals.
C9_Serialized ==
    (pc \in {"visualize", "ask"} /\ vtk # <<>>) =>
       /\ filename \in files
       /\ Len(vtk) = 4 + (1 + N) + (1 + N) + (3 + N)
       /\ vtk[5].tag = "POINTS float" /\ vtk[5].vals = <<N>>
       /\ vtk[6 + N].tag = "VERTICES" /\ vtk[6 + N].vals = <<N, 2 * N>>
       /\ vtk[7 + 2 * N].tag = "POINT_DATA" /\ vtk[7 + 2 * N].vals = <<N>>
       /\ vtk[8 + 2 * N].tag = "SCALARS damage float 1"
       /\ vtk[9 + 2 * N].tag = "LOOKUP_TABLE default"
       /\ \A k \in 0..(N - 1) :
             /\ vtk[6 + k].tag = ""
             /\ Len(vtk[6 + k].vals) = 3
             /\ vtk[6 + k].vals[1] * Unit = particles[k].x * Precision
             /\ vtk[6 + k].vals[2] * Unit = particles[k].y * Precision
             /\ vtk[6 + k].vals[3] = 0
             /\ vtk[7 + N + k].tag = ""
             /\ vtk[7 + N + k].vals = <<1, k>>
             /\ vtk[10 + 2 * N + k].tag = ""
             /\ Len(vtk[10 + 2 * N + k].vals) = 1
             /\ LET out == vtk[10 + 2 * N + k].vals[1]
                    num == damage[k][1]
                    den == damage[k][2]
                    err == out * den - num * Precision
                IN 0 - den <= 2 * err /\ 2 * err <= den

\* a written file of four particles whose damage values differ
C9_Witness ==
    /\ pc = "visualize"
    /\ N = 4
    /\ Len(vtk) = 21
    /\ vtk[19].vals # vtk[20].vals
    /\ vtk[7].vals # vtk[8].vals

\* C10: from the start of the pre-damage pass on, the per-particle broken
\* counts sum to twice brokenBonds, 0 <= brokenBonds <= totalBonds, and the
\* realized porosity is brokenBonds / totalBonds (0 without bonds), in [0,1].
C10_BrokenAgree ==
    /\ Sum(N_broken) = 2 * brokenBonds
    /\ 0 <= brokenBonds /\ brokenBonds <= totalBonds
    /\ realizedPorosity[2] > 0
    /\ 0 <= realizedPorosity[1] /\ realizedPorosity[1] <= realizedPorosity[2]
    /\ Damaged =>
          realizedPorosity[1] * (IF totalBonds > 0 THEN totalBonds ELSE 1)
             = (IF totalBonds > 0 THEN brokenBonds ELSE 0)
                  * realizedPorosity[2]

\* the middle of a pre-damage pass with broken and intact bonds behind it
C10_Witness ==
    /\ pc = "pass2"
    /\ i < N
    /\ 0 < brokenBonds /\ brokenBonds < totalBonds

====
